---- MODULE Spec2Model ----
(***************************************************************************)
(* A model of rusty_grep (src/src/main.rs): main compiles the pattern,     *)
(* computes show_header and runs process_file_name over the file           *)
(* arguments in order.  Text is modelled as sequences of one-character     *)
(* strings so that prefixes, decimal formatting and matching are computed. *)
(***************************************************************************)
EXTENDS Naturals, Sequences, FiniteSets, TLC

\* ---------------------------------------------------------------- bounds
MaxLines == 2
MaxFiles == 2

\* ---------------------------------------------------------------- inputs
Hello == <<"h", "e", "l", "l", "o">>
World == <<"w", "o", "r", "l", "d">>
HELLO == <<"H", "E", "L", "L", "O">>
\* a line whose bytes are not valid UTF-8: BufRead::lines yields Err for it
Invalid == <<"\\xff">>

LineSet == {Hello, World, HELLO, Invalid}

FileA == <<"a">>
FileB == <<"b">>
FileGone == <<"z">>
FileNames == {FileA, FileB, FileGone}

GoodPattern == Hello
BadPattern == <<"(">>
Patterns == {GoodPattern, BadPattern}

\* the fixed content of file b (ten lines, so that line numbers reach two digits)
ContentB == <<Hello, World, HELLO, World, Hello, HELLO, World, World, Hello, World>>

SeqsUpTo(S, n) == UNION {[1..k -> S] : k \in 0..n}

Contents == SeqsUpTo(LineSet, MaxLines)
FileLists == SeqsUpTo(FileNames, MaxFiles) \ {<<>>}

\* ---------------------------------------------------------------- text helpers
Colon == <<":">>

DigitChars == <<"0", "1", "2", "3", "4", "5", "6", "7", "8", "9">>

RECURSIVE ToDecimal(_)
ToDecimal(n) ==
    IF n < 10 THEN <<DigitChars[n + 1]>>
    ELSE ToDecimal(n \div 10) \o <<DigitChars[(n % 10) + 1]>>

FoldCase(c) ==
    CASE c = "H" -> "h"
      [] c = "E" -> "e"
      [] c = "L" -> "l"
      [] c = "O" -> "o"
      [] OTHER -> c

\* ---------------------------------------------------------------- the program's functions
NoRegex == [ok |-> FALSE, pattern |-> <<>>, insensitive |-> FALSE]

Balanced(regex_str) ==
    \A i \in 1..Len(regex_str) : regex_str[i] # "("

\* slip: the syntax check is skipped
BuildRegexUnchecked(regex_str, insensitive) ==
    [ok |-> TRUE, pattern |-> regex_str, insensitive |-> insensitive]

BuildRegex(regex_str, insensitive) ==
    IF Balanced(regex_str)
    THEN [ok |-> TRUE, pattern |-> regex_str, insensitive |-> insensitive]
    ELSE NoRegex

CharEq(re, c, p) ==
    IF re.insensitive THEN FoldCase(c) = FoldCase(p) ELSE c = p

IsMatch(re, line) ==
    \E i \in 0..Len(line) :
        /\ i + Len(re.pattern) <= Len(line)
        /\ \A j \in 1..Len(re.pattern) : CharEq(re, line[i + j], re.pattern[j])

\* slip: the header is not switched on for several files
ShowHeaderFlagOnly(show_header_flag, file_count) ==
    show_header_flag

ShowHeader(show_header_flag, file_count) ==
    show_header_flag \/ file_count > 1

\* slip: an inverted non-match is not written
ShouldWriteLineAnd(is_match, invert_match, count_matching_lines) ==
    is_match /\ ~invert_match /\ ~count_matching_lines

\* slip: count mode does not suppress the line
ShouldWriteLineNoCount(is_match, invert_match, count_matching_lines) ==
    is_match # invert_match

\* slip: the invert flag is ignored
ShouldWriteLineNoInvert(is_match, invert_match, count_matching_lines) ==
    is_match /\ ~count_matching_lines

ShouldWriteLine(is_match, invert_match, count_matching_lines) ==
    (is_match # invert_match) /\ ~count_matching_lines

\* slip: no_header is not consulted
BuildPrefixNoSuppress(file_name, showHeader, no_header, show_line_numbers, lineNumber) ==
    (IF showHeader THEN file_name \o Colon ELSE <<>>)
    \o (IF show_line_numbers THEN ToDecimal(lineNumber) \o Colon ELSE <<>>)

BuildPrefix(file_name, showHeader, no_header, show_line_numbers, lineNumber) ==
    (IF showHeader /\ ~no_header THEN file_name \o Colon ELSE <<>>)
    \o (IF show_line_numbers THEN ToDecimal(lineNumber) \o Colon ELSE <<>>)

CountLine(file_name, showHeader, matchingLines) ==
    IF showHeader
    THEN file_name \o Colon \o ToDecimal(matchingLines)
    ELSE ToDecimal(matchingLines)

\* File::open on a missing path: the io::Error carries the OS message only
NotFoundText ==
    <<"N","o"," ","s","u","c","h"," ","f","i","l","e"," ","o","r"," ",
      "d","i","r","e","c","t","o","r","y"," ","(","o","s"," ",
      "e","r","r","o","r"," ","2",")">>

InvalidDataText ==
    <<"s","t","r","e","a","m"," ","d","i","d"," ","n","o","t"," ",
      "c","o","n","t","a","i","n"," ","v","a","l","i","d"," ",
      "U","T","F","-","8">>

RegexErrorText(regex_str) ==
    <<"r","e","g","e","x"," ","p","a","r","s","e"," ","e","r","r","o","r",":"," ">>
    \o regex_str
    \o <<" ","e","r","r","o","r",":"," ","u","n","c","l","o","s","e","d"," ","g","r","o","u","p">>

OpenReader(files, path) ==
    IF path \in DOMAIN files
    THEN [ok |-> TRUE, lines |-> files[path], err |-> <<>>]
    ELSE [ok |-> FALSE, lines |-> <<>>, err |-> NotFoundText]

\* ---------------------------------------------------------------- state
VARIABLES
    cli,            \* the parsed command line (Cli)
    fs,             \* the files that exist, by path
    pc,             \* "start", "loop", "reading", "done", "failed"
    regex,          \* the compiled pattern
    show_header,    \* main's show_header
    file_idx,       \* position of the for loop over cli.file_names
    line_number,    \* process_file_name's line_number
    matching_lines, \* process_file_name's matching_lines
    out,            \* what was written to the output, one entry per writeln!
    opens,          \* the paths passed to open_reader so far
    err             \* the error main returned, as reported

vars == <<cli, fs, pc, regex, show_header, file_idx, line_number,
          matching_lines, out, opens, err>>

CliSet ==
    [show_header : BOOLEAN, no_header : BOOLEAN, insensitive : BOOLEAN,
     invert_match : BOOLEAN, show_line_numbers : BOOLEAN,
     count_matching_lines : BOOLEAN, regex : Patterns, file_names : FileLists]

Init ==
    /\ cli \in CliSet
    /\ \E c \in Contents : fs = (FileA :> c) @@ (FileB :> ContentB)
    /\ pc = "start"
    /\ regex = NoRegex
    /\ show_header = FALSE
    /\ file_idx = 0
    /\ line_number = 0
    /\ matching_lines = 0
    /\ out = <<>>
    /\ opens = <<>>
    /\ err = <<>>

CurrentFile == cli.file_names[file_idx]

\* main: build_regex(..)? and the computation of show_header
Compile ==
    /\ pc = "start"
    /\ LET r == BuildRegex(cli.regex, cli.insensitive) IN
         IF r.ok
         THEN /\ regex' = r
              /\ show_header' = ShowHeader(cli.show_header, Len(cli.file_names))
              /\ pc' = "loop"
              /\ err' = err
         ELSE /\ pc' = "failed"
              /\ err' = RegexErrorText(cli.regex)
              /\ UNCHANGED <<regex, show_header>>
    /\ UNCHANGED <<cli, fs, file_idx, line_number, matching_lines, out, opens>>

\* main's for loop takes the next file; process_file_name opens it
OpenFile ==
    /\ pc = "loop"
    /\ file_idx < Len(cli.file_names)
    /\ file_idx' = file_idx + 1
    /\ LET path == cli.file_names[file_idx + 1]
           r == OpenReader(fs, path) IN
         /\ opens' = Append(opens, path)
         /\ IF r.ok
            THEN /\ pc' = "reading"
                 /\ err' = err
            ELSE /\ pc' = "failed"
                 /\ err' = r.err
    /\ line_number' = 0
    /\ matching_lines' = 0
    /\ UNCHANGED <<cli, fs, regex, show_header, out>>

\* one iteration of process_file_name's loop over reader.lines()
ReadLine ==
    /\ pc = "reading"
    /\ line_number < Len(fs[CurrentFile])
    /\ line_number' = line_number + 1
    /\ LET line == fs[CurrentFile][line_number + 1] IN
         IF line = Invalid
         THEN /\ pc' = "failed"
              /\ err' = InvalidDataText
              /\ UNCHANGED <<matching_lines, out>>
         ELSE LET is_match == IsMatch(regex, line) IN
              /\ matching_lines' = IF is_match THEN matching_lines + 1 ELSE matching_lines
              /\ out' = IF ShouldWriteLine(is_match, cli.invert_match, cli.count_matching_lines)
                        THEN Append(out,
                               [text |-> BuildPrefix(CurrentFile, show_header, cli.no_header,
                                                     cli.show_line_numbers, line_number + 1) \o line,
                                file |-> file_idx, kind |-> "line", line |-> line_number + 1])
                        ELSE out
              /\ UNCHANGED <<pc, err>>
    /\ UNCHANGED <<cli, fs, regex, show_header, file_idx, opens>>

\* end of input: the optional count line, then process_file_name returns Ok
Finalize ==
    /\ pc = "reading"
    /\ line_number = Len(fs[CurrentFile])
    /\ out' = IF cli.count_matching_lines
              THEN Append(out,
                     [text |-> CountLine(CurrentFile, show_header, matching_lines),
                      file |-> file_idx, kind |-> "count", line |-> 0])
              ELSE out
    /\ pc' = "loop"
    /\ UNCHANGED <<cli, fs, regex, show_header, file_idx, line_number,
                   matching_lines, opens, err>>

\* main returns Ok(()) after the last file
Exit ==
    /\ pc = "loop"
    /\ file_idx = Len(cli.file_names)
    /\ pc' = "done"
    /\ UNCHANGED <<cli, fs, regex, show_header, file_idx, line_number,
                   matching_lines, out, opens, err>>

Next == Compile \/ OpenFile \/ ReadLine \/ Finalize \/ Exit

Spec == Init /\ [][Next]_vars

\* ---------------------------------------------------------------- helpers of the properties
StartsWith(s, p) ==
    Len(p) <= Len(s) /\ \A i \in 1..Len(p) : s[i] = p[i]

EndsWith(s, p) ==
    Len(p) <= Len(s) /\ \A i \in 1..Len(p) : s[Len(s) - Len(p) + i] = p[i]

Contains(s, p) ==
    \E i \in 0..Len(s) :
        i + Len(p) <= Len(s) /\ \A j \in 1..Len(p) : s[i + j] = p[j]

NameOf(i) == cli.file_names[i]
Exists(i) == NameOf(i) \in DOMAIN fs
LinesOf(i) == fs[NameOf(i)]
HeaderOf(i) == NameOf(i) \o <<":">>
EntriesOf(i) == SelectSeq(out, LAMBDA e : e.file = i)

\* process_file_name returned Ok for the i-th file argument
Completed(i) ==
    /\ i \in 1..file_idx
    /\ i < file_idx \/ pc \in {"loop", "done"}

\* the effective (post-invert) condition of a line
Effective(line) == IsMatch(regex, line) # cli.invert_match

\* the number of lines of the i-th file that were read and decoded so far
Handled(i) ==
    IF Completed(i) THEN Len(LinesOf(i))
    ELSE IF pc = "reading" THEN line_number
    ELSE IF line_number > 0 THEN line_number - 1 ELSE 0

EffectiveLines(i) ==
    SelectSeq(SubSeq(LinesOf(i), 1, Handled(i)), Effective)

DigitValue(c) == CHOOSE d \in 0..9 : DigitChars[d + 1] = c

RECURSIVE DecValue(_)
DecValue(s) ==
    IF Len(s) = 0 THEN 0
    ELSE 10 * DecValue(SubSeq(s, 1, Len(s) - 1)) + DigitValue(s[Len(s)])

IsDecimalOf(s, n) ==
    /\ Len(s) >= 1
    /\ \A i \in 1..Len(s) : \E d \in 1..10 : DigitChars[d] = s[i]
    /\ Len(s) > 1 => s[1] # "0"
    /\ DecValue(s) = n

\* ---------------------------------------------------------------- properties

\* C1: in count mode the number on a file's count line is the number of the
\* file's lines with is_match # invert_match.
C1_CountIsEffectiveCount ==
    \A k \in 1..Len(out) :
        out[k].kind = "count" =>
            LET i == out[k].file
                n == Cardinality({j \in 1..Len(LinesOf(i)) : Effective(LinesOf(i)[j])})
            IN \E d \in {out[k].text} \cup
                        {SubSeq(out[k].text, Len(HeaderOf(i)) + 1, Len(out[k].text))} :
                   IsDecimalOf(d, n)

\* C2: after a failed open the driver goes on: at the end of the run every
\* existing file listed after the missing one has been processed.
C2_ContinuesAfterFailedOpen ==
    pc \in {"done", "failed"} =>
        \A j \in 1..Len(opens) : \A i \in 1..Len(cli.file_names) :
            (~Exists(j) /\ i > j /\ Exists(i)) => i <= Len(opens)

\* C3: with no_header set no written line starts with "<fileName>:",
\* neither a matching line nor the count line.
C3_NoHeaderSuppressesPrefix ==
    cli.no_header =>
        \A k \in 1..Len(out) : ~StartsWith(out[k].text, HeaderOf(out[k].file))

\* C4: should_write_line agrees with the truth table on its three arguments:
\* the line just read was written exactly when the table says so.
TruthTable ==
    (<<TRUE, FALSE, FALSE>> :> TRUE)  @@ (<<TRUE, TRUE, FALSE>> :> FALSE) @@
    (<<FALSE, FALSE, FALSE>> :> FALSE) @@ (<<FALSE, TRUE, FALSE>> :> TRUE) @@
    (<<TRUE, FALSE, TRUE>> :> FALSE)  @@ (<<TRUE, TRUE, TRUE>> :> FALSE) @@
    (<<FALSE, FALSE, TRUE>> :> FALSE) @@ (<<FALSE, TRUE, TRUE>> :> FALSE)

JustWritten ==
    /\ Len(out) > 0
    /\ out[Len(out)].kind = "line"
    /\ out[Len(out)].file = file_idx
    /\ out[Len(out)].line = line_number

C4_ShouldWriteLineTable ==
    (pc = "reading" /\ line_number > 0) =>
        JustWritten = TruthTable[<<IsMatch(regex, LinesOf(file_idx)[line_number]),
                                   cli.invert_match, cli.count_matching_lines>>]

C4_Witness ==
    /\ pc = "reading" /\ line_number > 0
    /\ cli.invert_match /\ ~cli.count_matching_lines
    /\ ~IsMatch(regex, LinesOf(file_idx)[line_number])
    /\ JustWritten

\* C5: in count mode a file read to its end has exactly one written line, the
\* count line, and no content line is ever written; with count mode off no
\* count line is written and a file without effective matches writes nothing.
C5_CountModeOutput ==
    /\ cli.count_matching_lines =>
         /\ \A k \in 1..Len(out) : out[k].kind = "count"
         /\ \A i \in 1..file_idx : Completed(i) => Len(EntriesOf(i)) = 1
    /\ ~cli.count_matching_lines =>
         /\ \A k \in 1..Len(out) : out[k].kind = "line"
         /\ \A i \in 1..file_idx :
               (Completed(i) /\ EffectiveLines(i) = <<>>) => EntriesOf(i) = <<>>

C5_Witness ==
    /\ pc = "done"
    /\ cli.count_matching_lines /\ cli.invert_match /\ cli.show_line_numbers
    /\ cli.file_names = <<FileB, FileA>>
    /\ Len(fs[FileA]) = MaxLines
    /\ Len(out) = 2

\* C6: build_prefix is "<fileName>:" iff show_header and not no_header,
\* followed by "<lineNumber>:" iff show_line_numbers, and nothing else.
C6_BuildPrefix ==
    \A k \in 1..Len(out) :
        out[k].kind = "line" =>
            LET e == out[k]
                content == LinesOf(e.file)[e.line]
                hdr == IF show_header /\ ~cli.no_header THEN HeaderOf(e.file) ELSE <<>>
                rest == SubSeq(e.text, Len(hdr) + 1, Len(e.text) - Len(content))
            IN /\ Len(e.text) >= Len(hdr) + Len(content)
               /\ StartsWith(e.text, hdr)
               /\ EndsWith(e.text, content)
               /\ IF cli.show_line_numbers
                  THEN /\ Len(rest) >= 2
                       /\ rest[Len(rest)] = ":"
                       /\ IsDecimalOf(SubSeq(rest, 1, Len(rest) - 1), e.line)
                  ELSE rest = <<>>
               /\ (NameOf(e.file) = FileB /\ e.line = 5) =>
                    /\ (show_header /\ ~cli.no_header /\ cli.show_line_numbers)
                          => e.text = <<"b", ":", "5", ":">> \o content
                    /\ (~show_header /\ ~cli.no_header /\ ~cli.show_line_numbers)
                          => e.text = content
                    /\ (show_header /\ cli.no_header /\ ~cli.show_line_numbers)
                          => e.text = content

C6_Witness ==
    /\ show_header /\ ~cli.no_header /\ cli.show_line_numbers
    /\ \E k \in 1..Len(out) :
          /\ out[k].text = <<"b", ":", "1", "0", ":">> \o World
          /\ out[k].line = 10

\* C7: with more than one file and neither header flag set every written line
\* begins with its file's "<filename>:"; with one file and show-header not set
\* no line begins with it.
C7_HeaderAutoEnable ==
    /\ (Len(cli.file_names) > 1 /\ ~cli.show_header /\ ~cli.no_header) =>
          \A k \in 1..Len(out) : StartsWith(out[k].text, HeaderOf(out[k].file))
    /\ (Len(cli.file_names) = 1 /\ ~cli.show_header) =>
          \A k \in 1..Len(out) : ~StartsWith(out[k].text, HeaderOf(out[k].file))

C7_Witness ==
    /\ pc = "done"
    /\ Len(cli.file_names) = 2 /\ ~cli.show_header /\ ~cli.no_header
    /\ \E k \in 1..Len(out) : out[k].file = 2 /\ out[k].kind = "line"
    /\ \E k \in 1..Len(out) : out[k].file = 1 /\ out[k].kind = "line"

\* C8: a nonexistent path gives a reported error that names that path, and
\* nothing is written for that file.
C8_ErrorNamesPath ==
    \A i \in 1..Len(opens) :
        ~Exists(i) => /\ Contains(err, NameOf(i))
                      /\ EntriesOf(i) = <<>>

\* C9: with count mode off the written contents are, file after file in
\* argument order, the lines with is_match # invert_match in line order; in
\* count mode a count line lies between the output of earlier and later files.
C9_OutputOrder ==
    /\ \A k \in 1..Len(out) : \A l \in 1..Len(out) :
          k < l => out[k].file <= out[l].file
    /\ \A k \in 1..Len(out) : out[k].file \in 1..file_idx /\ Exists(out[k].file)
    /\ ~cli.count_matching_lines =>
          \A i \in 1..file_idx : Exists(i) =>
              LET es == EntriesOf(i)
                  want == EffectiveLines(i)
              IN /\ Len(es) = Len(want)
                 /\ \A k \in 1..Len(es) : EndsWith(es[k].text, want[k])
                 /\ (~show_header /\ ~cli.show_line_numbers) =>
                       \A k \in 1..Len(es) : es[k].text = want[k]

C9_Witness ==
    /\ pc = "done"
    /\ ~cli.count_matching_lines /\ cli.invert_match
    /\ cli.file_names = <<FileB, FileA>>
    /\ fs[FileA] = <<World, HELLO>>
    /\ Len(EntriesOf(2)) = 2

\* C10: the pattern is compiled once before any file is opened: a malformed
\* pattern ends the run with no file opened and nothing written; otherwise the
\* compiled pattern and the options stay the same for every file.
C10_CompileFirst ==
    /\ [](/\ pc = "start" => (opens = <<>> /\ out = <<>>)
          /\ (cli.regex = BadPattern /\ pc # "start") =>
                (pc = "failed" /\ opens = <<>> /\ out = <<>>)
          /\ (cli.regex # BadPattern /\ pc # "start") =>
                (regex.ok /\ regex.pattern = cli.regex
                          /\ regex.insensitive = cli.insensitive))
    /\ [][/\ cli' = cli
          /\ pc # "start" => (regex' = regex /\ show_header' = show_header)]_vars

C10_Witness ==
    /\ cli.regex = BadPattern
    /\ Len(cli.file_names) = 2
    /\ pc = "failed"
====
